---- MODULE Spec2Model ----
(***************************************************************************)
(* Model of explosive.fuse's DefaultMapper (src/explosive/fuse/mapper.py): *)
(* the merged namespace over the entries of zip archives.                  *)
(*                                                                         *)
(* Strings that the code takes apart (entry names, archive paths, query    *)
(* paths) are sequences of one-character strings, so that splitting on     *)
(* "/" and os.path.basename are computed and not assumed.                  *)
(*                                                                         *)
(* mapper.py as found under src/ has load_archive, _load_infolist, mkdir,  *)
(* traverse, readfile and readdir.  _unload_infolist and the three         *)
(* bookkeeping dicts (archives, archive_ifilenames, reverse_mapping) are   *)
(* exercised by tests/test_mapper.py but their code is not available; they *)
(* are modelled from spec.md sections 3, 4.2 and 4.3, adjusted where the   *)
(* assertions of tests/test_mapper.py fix the behaviour.                   *)
(***************************************************************************)
EXTENDS Integers, Sequences, FiniteSets, TLC

\* ------------------------------------------------------------------ bounds

\* Total number of successful _load_infolist calls in one behaviour.
MaxLoads == 3

\* Longest infolist (number of entries) an archive on disk may have.
MaxInfos == 2

\* ------------------------------------------------------------- input sets

\* Archive paths handed to load_archive / _unload_infolist.
ArchivePaths == { <<"x">>, <<"y">> }

\* ZipInfo objects (filename, file_size) an archive may list.
Infos ==
    { [filename |-> <<"a">>,           file_size |-> 1],
      [filename |-> <<"a", "/">>,      file_size |-> 0],
      [filename |-> <<"a", "/", "b">>, file_size |-> 2],
      [filename |-> <<"b">>,           file_size |-> 3] }

RECURSIVE SeqsUpTo(_, _)
SeqsUpTo(S, n) ==
    IF n = 0 THEN { <<>> }
    ELSE LET shorter == SeqsUpTo(S, n - 1)
         IN  shorter \cup { Append(s, x) : s \in shorter, x \in S }

\* The infolists zf.infolist() may return (a zip file has at least one entry
\* here; the reader keeps the order of the central directory).
Infolists == SeqsUpTo(Infos, MaxInfos) \ { <<>> }

\* Ways ZipFile(archive_path) can end (mapper.py:116-129).
OpenOutcomes == { "ok", "BadZipFile", "FileNotFoundError", "other" }

\* ------------------------------------------------------------ dict helpers

EmptyDict == [k \in {} |-> k]

Put(d, k, v) == [x \in (DOMAIN d) \cup {k} |-> IF x = k THEN v ELSE d[x]]

Del(d, k) == [x \in (DOMAIN d) \ {k} |-> d[x]]

\* A directory is a dict, a file is a tuple (mapper.py:27-29).
DirNode(d) == [entries |-> d]

FileNode(archive, filename, size) ==
    [archive |-> archive, filename |-> filename, file_size |-> size]

\* isinstance(node, dict)
IsDict(node) == "entries" \in DOMAIN node

\* ---------------------------------------------------------------- strings

\* str.split('/')
RECURSIVE Split(_)
Split(s) ==
    IF s = <<>> THEN << <<>> >>
    ELSE LET rest == Split(Tail(s))
         IN  IF Head(s) = "/"
             THEN << <<>> >> \o rest
             ELSE << <<Head(s)>> \o Head(rest) >> \o Tail(rest)

\* os.path.basename: what follows the last '/'.
basename(path) == Split(path)[Len(Split(path))]

\* The default pathmaker: (directory fragments, leaf name); the leaf name
\* is empty for an entry that ends with '/'.
pathmaker(ifilename) ==
    LET segs == Split(ifilename)
    IN  [frags    |-> SubSeq(segs, 1, Len(segs) - 1),
         filename |-> segs[Len(segs)]]

\* ------------------------------------------------------------------- tree

\* mkdir that makes its way through a file: the file entry is replaced by a
\* directory instead of raising ValueError.
RECURSIVE mkdir_Forcing(_, _)
mkdir_Forcing(current, path_fragments) ==
    IF path_fragments = <<>> THEN [raised |-> FALSE, mapping |-> current]
    ELSE LET frag == Head(path_fragments)
             below == IF frag \in DOMAIN current /\ IsDict(current[frag])
                      THEN current[frag].entries
                      ELSE EmptyDict
             sub == mkdir_Forcing(below, Tail(path_fragments))
         IN  [raised |-> FALSE, mapping |-> Put(current, frag, DirNode(sub.mapping))]

\* DefaultMapper.mkdir on the dict `current`.  The code mutates while it
\* walks, so the result carries the dict as it is when the call returns or
\* raises.
RECURSIVE mkdir(_, _)
mkdir(current, path_fragments) ==
    IF path_fragments = <<>> THEN [raised |-> FALSE, mapping |-> current]
    ELSE LET frag == Head(path_fragments)
         IN  IF frag \in DOMAIN current
             THEN IF ~IsDict(current[frag])
                  THEN [raised |-> TRUE, mapping |-> current]
                  ELSE LET sub == mkdir(current[frag].entries, Tail(path_fragments))
                       IN  [raised  |-> sub.raised,
                            mapping |-> [current EXCEPT ![frag] = DirNode(sub.mapping)]]
             ELSE LET sub == mkdir(EmptyDict, Tail(path_fragments))
                  IN  [raised  |-> sub.raised,
                       mapping |-> Put(current, frag, DirNode(sub.mapping))]

\* The dict reached by following frags from `current` (every fragment is a
\* directory: used on the result of a mkdir that did not raise).
RECURSIVE DirAt(_, _)
DirAt(current, frags) ==
    IF frags = <<>> THEN current
    ELSE DirAt(current[Head(frags)].entries, Tail(frags))

\* target[filename] = value, target being the dict at frags.
RECURSIVE SetItem(_, _, _, _)
SetItem(current, frags, filename, value) ==
    IF frags = <<>> THEN Put(current, filename, value)
    ELSE [current EXCEPT ![Head(frags)] =
              DirNode(SetItem(current[Head(frags)].entries, Tail(frags), filename, value))]

\* del target[filename]
RECURSIVE DelItem(_, _, _)
DelItem(current, frags, filename) ==
    IF frags = <<>> THEN Del(current, filename)
    ELSE [current EXCEPT ![Head(frags)] =
              DirNode(DelItem(current[Head(frags)].entries, Tail(frags), filename))]

\* None
None == [none |-> TRUE]

\* The walk of DefaultMapper.traverse over already split fragments; the root
\* dict is wrapped as a directory node so that the result is always a node
\* or None.
RECURSIVE Walk(_, _)
Walk(node, path_fragments) ==
    IF path_fragments = <<>> THEN node
    ELSE IF ~IsDict(node) \/ Head(path_fragments) \notin DOMAIN node.entries
         THEN None
         ELSE Walk(node.entries[Head(path_fragments)], Tail(path_fragments))

\* traverse without the case of the empty path: '' is split like any other
\* path, into the one fragment ''.
traverse_SplitsEmptyPath(m, path) ==
    Walk(DirNode(m), Split(path))

\* DefaultMapper.traverse
traverse(m, path) ==
    Walk(DirNode(m), IF path # <<>> THEN Split(path) ELSE <<>>)

\* ------------------------------------------------------------------ state

VARIABLES
    overwrite,            \* self.overwrite
    include_arcname,      \* self.include_arcname
    mapping,              \* self.mapping: the root dict of the tree
    archives,             \* self.archives: the archive paths now loaded
    archive_ifilenames,   \* self.archive_ifilenames: archive path -> names it contributed
    reverse_mapping,      \* self.reverse_mapping: name -> archive paths that contributed it
    zipfiles,             \* the archives on disk that have been opened: path -> infolist
    log,                  \* the records the last call handed to the logger
    op,                   \* the last call: its argument, how it ended, what it removed
    made,                 \* every directory path the tree has had so far
    loads,                \* number of successful loads so far
    rwlock,               \* the callers' read/write lock: its writer and its readers
    threads               \* the calling threads: where each is in its call

vars == << overwrite, include_arcname, mapping, archives, archive_ifilenames,
           reverse_mapping, zipfiles, log, op, made, loads, rwlock, threads >>

\* The mutable part of a DefaultMapper as one record, threaded through the
\* loops of _load_infolist and _unload_infolist.
Self ==
    [mapping            |-> mapping,
     archives           |-> archives,
     archive_ifilenames |-> archive_ifilenames,
     reverse_mapping    |-> reverse_mapping,
     log                |-> <<>>]

LogRecord(level, msg, arg) == [level |-> level, msg |-> msg, arg |-> arg]

\* ------------------------------------------------------------------- load

\* mapper.py:85-88
EffectiveName(archive_path, info) ==
    IF include_arcname
    THEN basename(archive_path) \o <<"/">> \o info.filename
    ELSE info.filename

\* The bookkeeping of one entry: the name joins the archive's list and the
\* archive joins the name's list, before the tree is touched.
Record(st, archive_path, ifilename) ==
    [st EXCEPT
        !.archive_ifilenames =
            [@ EXCEPT ![archive_path] = Append(@, ifilename)],
        !.reverse_mapping =
            IF ifilename \in DOMAIN @
            THEN [@ EXCEPT ![ifilename] = Append(@, archive_path)]
            ELSE Put(@, ifilename, <<archive_path>>)]

\* Register that starts the list of names afresh on every load.
Register_Replacing(st, archive_path) ==
    [st EXCEPT
        !.archives = @ \cup {archive_path},
        !.archive_ifilenames = Put(@, archive_path, <<>>)]

\* The archive enters the registry when its infolist is taken up; a second
\* load of a loaded archive keeps the names it already has.
Register(st, archive_path) ==
    [st EXCEPT
        !.archives = @ \cup {archive_path},
        !.archive_ifilenames =
            IF archive_path \in DOMAIN @ THEN @ ELSE Put(@, archive_path, <<>>)]

\* StoreLeaf without the test of self.overwrite: the later entry always wins.
StoreLeaf_AlwaysWrites(st, m, archive_path, info, frags, filename) ==
    [st EXCEPT
        !.mapping = SetItem(m, frags, filename,
                            FileNode(archive_path, info.filename, info.file_size))]

\* StoreLeaf that also gives way to any other archive recorded for the name.
StoreLeaf_YieldsToLedger(st, m, archive_path, info, frags, filename) ==
    IF /\ ~overwrite
       /\ \/ filename \in DOMAIN DirAt(m, frags)
          \/ \E i \in 1..Len(st.reverse_mapping[EffectiveName(archive_path, info)]) :
                st.reverse_mapping[EffectiveName(archive_path, info)][i] # archive_path
    THEN [st EXCEPT !.mapping = m]
    ELSE [st EXCEPT
             !.mapping = SetItem(m, frags, filename,
                                 FileNode(archive_path, info.filename, info.file_size))]

\* StoreLeaf that stores the name the path was made from (ifilename) in
\* the place of info.filename.
StoreLeaf_StoresEffectiveName(st, m, archive_path, info, frags, filename) ==
    IF filename \in DOMAIN DirAt(m, frags) /\ ~overwrite
    THEN [st EXCEPT !.mapping = m]
    ELSE [st EXCEPT
             !.mapping = SetItem(m, frags, filename,
                                 FileNode(archive_path, EffectiveName(archive_path, info),
                                          info.file_size))]

\* mapper.py:104-108, on the tree m in which mkdir(frags) has succeeded.
StoreLeaf(st, m, archive_path, info, frags, filename) ==
    IF filename \in DOMAIN DirAt(m, frags) /\ ~overwrite
    THEN [st EXCEPT
             !.mapping = m,
             !.log = Append(@, LogRecord("info", "already exists; ignoring", info.filename))]
    ELSE [st EXCEPT
             !.mapping = SetItem(m, frags, filename,
                                 FileNode(archive_path, info.filename, info.file_size))]

\* LoadInfo that records an entry only when it gets as far as its leaf:
\* entries turned down by mkdir and directory entries leave no trace.
LoadInfo_RecordsLeavesOnly(st, archive_path, info) ==
    LET ifilename == EffectiveName(archive_path, info)
        pm        == pathmaker(ifilename)
        md        == mkdir(st.mapping, pm.frags)
    IN  IF md.raised
        THEN [st EXCEPT
                 !.mapping = md.mapping,
                 !.log = Append(@, LogRecord("warning", "could not be created", info.filename))]
        ELSE IF pm.filename = <<>>
        THEN [st EXCEPT !.mapping = md.mapping]
        ELSE StoreLeaf(Record(st, archive_path, ifilename), md.mapping,
                       archive_path, info, pm.frags, pm.filename)

\* LoadInfo without the test `if not filename`: a directory entry goes on to
\* write a leaf under the empty name.
LoadInfo_WritesDirectoryEntry(st, archive_path, info) ==
    LET ifilename == EffectiveName(archive_path, info)
        pm        == pathmaker(ifilename)
        rec       == Record(st, archive_path, ifilename)
        md        == mkdir(rec.mapping, pm.frags)
    IN  IF md.raised
        THEN [rec EXCEPT
                 !.mapping = md.mapping,
                 !.log = Append(@, LogRecord("warning", "could not be created", info.filename))]
        ELSE StoreLeaf(rec, md.mapping, archive_path, info, pm.frags, pm.filename)

\* One turn of the loop of _load_infolist (mapper.py:84-108).
LoadInfo(st, archive_path, info) ==
    LET ifilename == EffectiveName(archive_path, info)
        pm        == pathmaker(ifilename)
        rec       == Record(st, archive_path, ifilename)
        md        == mkdir(rec.mapping, pm.frags)
    IN  IF md.raised
        THEN [rec EXCEPT
                 !.mapping = md.mapping,
                 !.log = Append(@, LogRecord("warning", "could not be created", info.filename))]
        ELSE IF pm.filename = <<>>
        THEN [rec EXCEPT !.mapping = md.mapping]
        ELSE StoreLeaf(rec, md.mapping, archive_path, info, pm.frags, pm.filename)

RECURSIVE LoadLoop(_, _, _)
LoadLoop(st, archive_path, infolist) ==
    IF infolist = <<>> THEN st
    ELSE LoadLoop(LoadInfo(st, archive_path, Head(infolist)), archive_path, Tail(infolist))

\* DefaultMapper._load_infolist
load_infolist(st, archive_path, infolist) ==
    LoadLoop(Register(st, archive_path), archive_path, infolist)

\* load_archive that enters the archive in the registry before opening it.
LoadArchiveResult_RegistersFirst(st, archive_path, outcome, infolist) ==
    IF outcome = "ok"
    THEN [st |-> load_infolist(st, archive_path, infolist), ret |-> "True"]
    ELSE [st |-> Register(st, archive_path), ret |-> "False"]

\* What load_archive does once ZipFile(archive_path) has ended with
\* `outcome` (mapper.py:116-129): the new state and the value returned.
LoadArchiveResult(st, archive_path, outcome, infolist) ==
    IF outcome = "ok"
    THEN LET done == load_infolist(st, archive_path, infolist)
         IN  [st  |-> [done EXCEPT !.log = Append(@, LogRecord("info", "loaded", archive_path))],
              ret |-> "True"]
    ELSE [st  |-> [st EXCEPT !.log =
                      << IF outcome = "BadZipFile"
                         THEN LogRecord("warning", "appears to be an invalid archive file", archive_path)
                         ELSE IF outcome = "FileNotFoundError"
                         THEN LogRecord("warning", "does not exist", archive_path)
                         ELSE LogRecord("exception", "Exception", archive_path) >>],
          ret |-> "False"]

\* ----------------------------------------------------------------- unload

\* The leaf a name stands for is dropped when it is a file of archive p.
DropLeaf(m, ifilename, p) ==
    LET pm     == pathmaker(ifilename)
        parent == Walk(DirNode(m), pm.frags)
    IN  IF /\ pm.filename # <<>>
           /\ IsDict(parent)
           /\ pm.filename \in DOMAIN parent.entries
           /\ ~IsDict(parent.entries[pm.filename])
           /\ parent.entries[pm.filename].archive = p
        THEN DelItem(m, pm.frags, pm.filename)
        ELSE m

\* The end of a name's list that answers for the leaf: the oldest
\* contributor when later loads do not overwrite, the newest when they do.
OwnerIndex(ledger) == IF overwrite THEN Len(ledger) ELSE 1

RemoveAt(s, i) == SubSeq(s, 1, i - 1) \o SubSeq(s, i + 1, Len(s))

\* Unwinding one name: archives that are no longer loaded are taken off the
\* answering end of the name's list, each taking its leaf with it, until a
\* loaded archive answers or the list is empty (and then removed).
RECURSIVE UnloadName(_, _)
UnloadName(st, ifilename) ==
    IF ifilename \notin DOMAIN st.reverse_mapping THEN st
    ELSE LET ledger == st.reverse_mapping[ifilename]
         IN  IF ledger = <<>>
             THEN [st EXCEPT !.reverse_mapping = Del(@, ifilename)]
             ELSE LET i == OwnerIndex(ledger)
                      p == ledger[i]
                  IN  IF p \in st.archives THEN st
                      ELSE UnloadName(
                               [st EXCEPT
                                   !.reverse_mapping[ifilename] = RemoveAt(ledger, i),
                                   !.mapping = DropLeaf(@, ifilename, p)],
                               ifilename)

RECURSIVE UnloadLoop(_, _)
UnloadLoop(st, ifilenames) ==
    IF ifilenames = <<>> THEN st
    ELSE UnloadLoop(UnloadName(st, Head(ifilenames)), Tail(ifilenames))

\* _unload_infolist that hands a leaf it removed to the archive that answers
\* for the name next.
unload_infolist_Repopulating(st, archive_path) ==
    LET names == st.archive_ifilenames[archive_path]
        done  == UnloadLoop([st EXCEPT
                                !.archives = @ \ {archive_path},
                                !.archive_ifilenames = Del(@, archive_path)],
                            names)
        again == { n \in { names[i] : i \in 1..Len(names) } :
                      /\ pathmaker(n).filename # <<>>
                      /\ n \in DOMAIN done.reverse_mapping
                      /\ IsDict(Walk(DirNode(done.mapping), pathmaker(n).frags))
                      /\ Walk(DirNode(done.mapping),
                              Append(pathmaker(n).frags, pathmaker(n).filename)) = None }
    IN  IF again = {} THEN done
        ELSE LET n == CHOOSE x \in again : TRUE
                 ledger == done.reverse_mapping[n]
             IN  [done EXCEPT
                     !.mapping = SetItem(@, pathmaker(n).frags, pathmaker(n).filename,
                                         FileNode(ledger[OwnerIndex(ledger)], n, 0))]

\* Unwinding one name by its occupant: the archive is taken out of the
\* name's list wherever it stands, and the leaf goes when it is the
\* archive's.
UnloadNameByOccupant(st, archive_path, ifilename) ==
    IF ifilename \notin DOMAIN st.reverse_mapping THEN st
    ELSE LET rest == SelectSeq(st.reverse_mapping[ifilename],
                               LAMBDA x : x # archive_path)
         IN  [st EXCEPT
                 !.reverse_mapping =
                     IF rest = <<>> THEN Del(@, ifilename)
                     ELSE [@ EXCEPT ![ifilename] = rest],
                 !.mapping = DropLeaf(@, ifilename, archive_path)]

RECURSIVE UnloadLoopByOccupant(_, _, _)
UnloadLoopByOccupant(st, archive_path, ifilenames) ==
    IF ifilenames = <<>> THEN st
    ELSE UnloadLoopByOccupant(UnloadNameByOccupant(st, archive_path, Head(ifilenames)),
                              archive_path, Tail(ifilenames))

\* _unload_infolist that goes by the occupant of each leaf and not by the
\* place of the archive in the name's list.
unload_infolist_ByOccupant(st, archive_path) ==
    UnloadLoopByOccupant([st EXCEPT
                             !.archives = @ \ {archive_path},
                             !.archive_ifilenames = Del(@, archive_path)],
                         archive_path, st.archive_ifilenames[archive_path])

\* DefaultMapper._unload_infolist for a loaded archive: the archive leaves
\* the registry and its names are unwound in the order they were recorded.
unload_infolist(st, archive_path) ==
    UnloadLoop([st EXCEPT
                   !.archives = @ \ {archive_path},
                   !.archive_ifilenames = Del(@, archive_path)],
               st.archive_ifilenames[archive_path])

\* _unload_infolist that passes over an archive that is not loaded.
UnloadResult_Lenient(st, archive_path) ==
    IF archive_path \notin st.archives
    THEN [st |-> st, ret |-> "None"]
    ELSE [st |-> unload_infolist(st, archive_path), ret |-> "None"]

\* _unload_infolist as called: KeyError for an archive that is not loaded,
\* with nothing touched.
UnloadResult(st, archive_path) ==
    IF archive_path \notin st.archives
    THEN [st |-> st, ret |-> "KeyError"]
    ELSE [st |-> unload_infolist(st, archive_path), ret |-> "None"]

\* ------------------------------------------------------------ observation

IsFile(node) == "archive" \in DOMAIN node

NodeAt(m, p) == Walk(DirNode(m), p)

\* The paths (sequences of fragments) of dict d that lead to a file.
RECURSIVE FilePaths(_)
FilePaths(d) ==
    UNION { IF IsDict(d[k])
            THEN { <<k>> \o p : p \in FilePaths(d[k].entries) }
            ELSE { <<k>> } : k \in DOMAIN d }

\* The paths of dict d that lead to a directory.
RECURSIVE DirPaths(_)
DirPaths(d) ==
    UNION { IF IsDict(d[k])
            THEN { <<k>> } \cup { <<k>> \o p : p \in DirPaths(d[k].entries) }
            ELSE {} : k \in DOMAIN d }

\* The path a name stands for: its fragments and then its leaf name.
PathOf(ifilename) ==
    LET pm == pathmaker(ifilename)
    IN  IF pm.filename = <<>> THEN pm.frags ELSE Append(pm.frags, pm.filename)

IsLeafName(ifilename) == pathmaker(ifilename).filename # <<>>

\* The file leaves of m that are not in m2 any more, with what they were.
Removed(m, m2) ==
    { [path |-> p, node |-> NodeAt(m, p)] : p \in { q \in FilePaths(m) : NodeAt(m2, q) = None } }

\* ---------------------------------------------------------------- actions

\* The threads of the embedding server that call the mapper.
Threads == { "t1", "t2" }

\* A thread that is not in a call.
IdleThread == [pc |-> "idle", archive_path |-> <<>>, pending |-> <<>>, start |-> EmptyDict]

Init ==
    /\ overwrite \in BOOLEAN
    /\ include_arcname \in BOOLEAN
    /\ mapping = EmptyDict
    /\ archives = {}
    /\ archive_ifilenames = EmptyDict
    /\ reverse_mapping = EmptyDict
    /\ zipfiles = EmptyDict
    /\ log = <<>>
    /\ op = [name |-> "__init__", archive_path |-> <<>>, outcome |-> "ok",
             ret |-> "None", removed |-> {}, reload |-> FALSE, undone |-> {}]
    /\ made = {}
    /\ loads = 0
    /\ rwlock = [writer |-> "none", readers |-> {}]
    /\ threads = [t \in Threads |-> IdleThread]

Commit(st) ==
    /\ mapping' = st.mapping
    /\ archives' = st.archives
    /\ archive_ifilenames' = st.archive_ifilenames
    /\ reverse_mapping' = st.reverse_mapping
    /\ log' = st.log
    /\ made' = IF st.mapping = mapping THEN made ELSE made \cup DirPaths(st.mapping)

\* This load of archive_path comes right after the unload of archive_path.
Reloads(archive_path, outcome) ==
    /\ outcome = "ok"
    /\ op.name = "_unload_infolist"
    /\ op.ret = "None"
    /\ op.archive_path = archive_path

\* What zf.infolist() can give: the entries the archive has on disk, which
\* are fixed once the archive has been opened; nothing is listed when the
\* archive does not open.
Listings(archive_path, outcome) ==
    IF outcome # "ok" THEN { <<>> }
    ELSE IF archive_path \in DOMAIN zipfiles THEN { zipfiles[archive_path] }
    ELSE Infolists

\* load_archive(archive_path) when ZipFile(archive_path) ends with `outcome`
\* and zf.infolist() gives one of `listings`.
LoadArchiveFrom(archive_path, outcome, listings) ==
    /\ outcome = "ok" => loads < MaxLoads
    /\ \E infolist \in listings :
          /\ zipfiles' = IF outcome = "ok" THEN Put(zipfiles, archive_path, infolist) ELSE zipfiles
          /\ LET r == LoadArchiveResult(Self, archive_path, outcome, infolist)
             IN  /\ Commit(r.st)
                 /\ op' = [name |-> "load_archive", archive_path |-> archive_path,
                           outcome |-> outcome, ret |-> r.ret, removed |-> {},
                           reload |-> Reloads(archive_path, outcome),
                           undone |-> IF Reloads(archive_path, outcome)
                                      THEN op.removed ELSE {}]
    /\ loads' = IF outcome = "ok" THEN loads + 1 ELSE loads
    /\ UNCHANGED << overwrite, include_arcname >>

\* load_archive(archive_path): ZipFile(archive_path) ends with `outcome`;
\* an archive that opens lists the entries it has on disk.
LoadArchive(archive_path, outcome) ==
    LoadArchiveFrom(archive_path, outcome, Listings(archive_path, outcome))

\* _unload_infolist(archive_path)
UnloadInfolist(archive_path) ==
    /\ LET r == UnloadResult(Self, archive_path)
       IN  /\ Commit(r.st)
           /\ op' = [name |-> "_unload_infolist", archive_path |-> archive_path,
                     outcome |-> "ok", ret |-> r.ret,
                     removed |-> Removed(mapping, r.st.mapping), reload |-> FALSE,
                     undone |-> {}]
    /\ UNCHANGED << overwrite, include_arcname, zipfiles, loads >>

\* A call made from start to end by one caller: no lock is taken and no
\* other thread is under way.
Alone == UNCHANGED << rwlock, threads >>

\* The calls that go through: an archive that opens is loaded, a loaded
\* archive is unloaded.
Next ==
    \/ \E a \in ArchivePaths : LoadArchive(a, "ok") /\ Alone
    \/ \E a \in archives : UnloadInfolist(a) /\ Alone

\* The calls that fail: an archive that does not open, an archive that is
\* not loaded.
Faults ==
    \/ \E a \in ArchivePaths, o \in OpenOutcomes \ {"ok"} : LoadArchive(a, o) /\ Alone
    \/ \E a \in ArchivePaths \ archives : UnloadInfolist(a) /\ Alone

NextCall == Next \/ Faults

\* Every call, failing ones included.
Spec == Init /\ [][NextCall]_vars

\* Only the calls that go through (a failing call changes nothing but op
\* and log).
SpecMerge == Init /\ [][Next]_vars

\* ---------------------------------------------------------------- queries

\* Number of successful loads before the queries of one behaviour.
MaxQueryLoads == 2

\* The infolists of the archives that are loaded before the tree is
\* queried: between them they give a file at the top, a file in a directory,
\* an empty directory and, with a third name, a directory of three children.
QueryInfolists ==
    LET a  == [filename |-> <<"a">>,           file_size |-> 1]
        ad == [filename |-> <<"a", "/">>,      file_size |-> 0]
        ab == [filename |-> <<"a", "/", "b">>, file_size |-> 2]
        b  == [filename |-> <<"b">>,           file_size |-> 3]
        c  == [filename |-> <<"c">>,           file_size |-> 4]
    IN  { <<a, b>>, <<c>>, <<ab, c>>, <<ad>>, <<ab>> }

QueryListings(archive_path) ==
    IF archive_path \in DOMAIN zipfiles THEN { zipfiles[archive_path] }
    ELSE QueryInfolists

\* The paths handed to traverse, readdir and readfile.
QueryPaths ==
    { <<>>, <<"a">>, <<"a", "/">>, <<"a", "/", "b">>, <<"a", "/", "b", "/", "a">>,
      <<"b">>, <<"x">>, <<"x", "/", "a">> }

\* Ways the zip reader can answer readfile: the archive and the entry open,
\* ZipFile(...) raises, or zf.open(...) raises.
ReadOutcomes == { "ok", "ZipFile raises", "open raises" }

\* The orders in which the keys of dict d can come out when it is iterated.
KeyOrders(d) ==
    { s \in [1..Cardinality(DOMAIN d) -> DOMAIN d] :
          \A i, j \in 1..Cardinality(DOMAIN d) : s[i] = s[j] => i = j }

\* readdir without the isinstance test: list() of a file tuple gives its
\* elements.
readdir_Unchecked(m, path) ==
    LET info == traverse(m, path)
    IN  IF info = None THEN {}
        ELSE IF IsDict(info) THEN DOMAIN info.entries
        ELSE { info.archive, info.filename }

\* DefaultMapper.readdir: the keys of the dict at path, nothing otherwise.
readdir(m, path) ==
    LET info == traverse(m, path)
    IN  IF ~IsDict(info) THEN {} ELSE DOMAIN info.entries

\* The calls readfile makes to the zip reader once `info` has been unpacked
\* into (archive_filename, filename, _), and how it ends.
ReadEntry(archive_filename, filename, outcome) ==
    IF outcome = "ZipFile raises"
    THEN [calls |-> << [call |-> "ZipFile", arg |-> archive_filename] >>,
          ret   |-> "raised by ZipFile"]
    ELSE [calls |-> << [call |-> "ZipFile", arg |-> archive_filename],
                       [call |-> "open", arg |-> filename] >>,
          ret   |-> IF outcome = "ok" THEN "bytes" ELSE "raised by open"]

\* DefaultMapper.readfile (mapper.py:138-143).  `info` is unpacked as a
\* sequence of three: None cannot be unpacked (TypeError), a file tuple
\* gives its three fields, and a dict gives its keys, in the order `order`,
\* when it has exactly three of them (ValueError otherwise).
readfile(m, path, order, outcome) ==
    LET info == traverse(m, path)
    IN  IF info = None THEN [calls |-> <<>>, ret |-> "TypeError"]
        ELSE IF IsDict(info)
        THEN IF Cardinality(DOMAIN info.entries) # 3
             THEN [calls |-> <<>>, ret |-> "ValueError"]
             ELSE ReadEntry(order[1], order[2], outcome)
        ELSE ReadEntry(info.archive, info.filename, outcome)

\* The record of a query in op.
Query(name, path, ret, value, calls) ==
    [name |-> name, archive_path |-> <<>>, outcome |-> "ok", ret |-> ret,
     removed |-> {}, reload |-> FALSE, undone |-> {},
     path |-> path, value |-> value, calls |-> calls]

\* traverse that makes the directories of a path it does not find, the way
\* mkdir walks.
Traverse_MakesPath(path) ==
    /\ LET info == traverse(mapping, path)
           md   == mkdir(mapping, Split(path))
       IN  /\ op' = Query("traverse", path, IF info = None THEN "None" ELSE "node",
                          info, <<>>)
           /\ mapping' = IF info = None /\ ~md.raised THEN md.mapping ELSE mapping
    /\ UNCHANGED << overwrite, include_arcname, archives, archive_ifilenames,
                    reverse_mapping, zipfiles, log, made, loads >>

\* traverse(path)
Traverse(path) ==
    /\ LET info == traverse(mapping, path)
       IN  op' = Query("traverse", path, IF info = None THEN "None" ELSE "node",
                       info, <<>>)
    /\ UNCHANGED << overwrite, include_arcname, mapping, archives, archive_ifilenames,
                    reverse_mapping, zipfiles, log, made, loads >>

\* readdir(path)
Readdir(path) ==
    /\ op' = Query("readdir", path, "list", readdir(mapping, path), <<>>)
    /\ UNCHANGED << overwrite, include_arcname, mapping, archives, archive_ifilenames,
                    reverse_mapping, zipfiles, log, made, loads >>

\* readfile(path): a dict of three keys is iterated in one of its orders, and
\* the zip reader answers in one of its ways when it is called.
Readfile(path) ==
    /\ LET info   == traverse(mapping, path)
           three  == IsDict(info) /\ Cardinality(DOMAIN info.entries) = 3
           orders == IF three THEN KeyOrders(info.entries) ELSE { <<>> }
           called == three \/ IsFile(info)
       IN  \E order \in orders, outcome \in (IF called THEN ReadOutcomes ELSE {"ok"}) :
              LET r == readfile(mapping, path, order, outcome)
              IN  op' = Query("readfile", path, r.ret, info, r.calls)
    /\ UNCHANGED << overwrite, include_arcname, mapping, archives, archive_ifilenames,
                    reverse_mapping, zipfiles, log, made, loads >>

\* The last call was a load or an unload (or the construction).  A query
\* changes nothing but op, so the states reached are the same when every
\* query is taken from the state a load or an unload left.
Settled == op.name \in { "__init__", "load_archive", "_unload_infolist" }

\* A few loads and unloads, and the queries on the tree they leave.
NextQuery ==
    \/ \E a \in ArchivePaths :
          /\ loads < MaxQueryLoads
          /\ LoadArchiveFrom(a, "ok", QueryListings(a))
          /\ Alone
    \/ \E a \in archives : UnloadInfolist(a) /\ Alone
    \/ \E p \in QueryPaths : Settled /\ Traverse(p) /\ Alone
    \/ \E p \in QueryPaths : Settled /\ Readdir(p) /\ Alone
    \/ \E p \in QueryPaths : Settled /\ Readfile(p) /\ Alone

SpecQuery == Init /\ [][NextQuery]_vars

\* --------------------------------------------------------------- rewrites

\* Longest infolist of an archive that is written anew between loads.
MaxRewriteInfos == 1

RewriteInfolists == SeqsUpTo(Infos, MaxRewriteInfos) \ { <<>> }

\* Loads and unloads in which an archive may have been written anew between
\* two loads of it: every load lists whatever the archive holds by then.
NextRewrite ==
    \/ \E a \in ArchivePaths : LoadArchiveFrom(a, "ok", RewriteInfolists) /\ Alone
    \/ \E a \in archives : UnloadInfolist(a) /\ Alone

SpecRewrite == Init /\ [][NextRewrite]_vars

\* ------------------------------------------------------------ locked calls

\* Number of successful loads in a behaviour of the locked calls.
MaxLockedLoads == 2

\* The paths the threads ask for.
LockedPaths == { <<>>, <<"a">> }

\* The exclusive lock can be taken: nobody writes and nobody reads.
CanWrite(lock) == lock.writer = "none" /\ lock.readers = {}

\* A shared lock that is given while a writer holds the lock.
CanShare_Always(lock) == TRUE

\* The shared lock can be taken: nobody writes.
CanShare(lock) == lock.writer = "none"

\* What the state variables hold, with the log so far, as one record.
SelfNow == [Self EXCEPT !.log = log]

\* Thread t takes the exclusive lock and calls load_archive(a): the archive
\* opens and _load_infolist is entered with its listing.
BeginLoad(t, a) ==
    /\ threads[t].pc = "idle"
    /\ CanWrite(rwlock)
    /\ loads < MaxLockedLoads
    /\ \E infolist \in QueryListings(a) :
          /\ zipfiles' = Put(zipfiles, a, infolist)
          /\ threads' = [threads EXCEPT ![t] =
                 [pc |-> "load", archive_path |-> a, pending |-> infolist,
                  start |-> mapping]]
    /\ Commit(Register(Self, a))
    /\ rwlock' = [rwlock EXCEPT !.writer = t]
    /\ UNCHANGED << overwrite, include_arcname, op, loads >>

\* One turn of the loop of _load_infolist in thread t.
LoadStep(t) ==
    /\ threads[t].pc = "load"
    /\ threads[t].pending # <<>>
    /\ Commit(LoadInfo(SelfNow, threads[t].archive_path, Head(threads[t].pending)))
    /\ threads' = [threads EXCEPT ![t].pending = Tail(@)]
    /\ UNCHANGED << overwrite, include_arcname, zipfiles, op, loads, rwlock >>

\* The loop is over: load_archive logs, returns True, and the thread gives
\* the lock back.
EndLoad(t) ==
    /\ threads[t].pc = "load"
    /\ threads[t].pending = <<>>
    /\ log' = Append(log, LogRecord("info", "loaded", threads[t].archive_path))
    /\ op' = [name |-> "load_archive", archive_path |-> threads[t].archive_path,
              outcome |-> "ok", ret |-> "True", removed |-> {}, reload |-> FALSE,
              undone |-> {}]
    /\ loads' = loads + 1
    /\ rwlock' = [rwlock EXCEPT !.writer = "none"]
    /\ threads' = [threads EXCEPT ![t] = IdleThread]
    /\ UNCHANGED << overwrite, include_arcname, mapping, archives, archive_ifilenames,
                    reverse_mapping, zipfiles, made >>

\* Thread t takes the exclusive lock and calls _unload_infolist(a) for a
\* loaded archive: the archive leaves the registry with its list of names.
BeginUnload(t, a) ==
    /\ threads[t].pc = "idle"
    /\ CanWrite(rwlock)
    /\ a \in archives
    /\ Commit([Self EXCEPT !.archives = @ \ {a}, !.archive_ifilenames = Del(@, a)])
    /\ threads' = [threads EXCEPT ![t] =
           [pc |-> "unload", archive_path |-> a, pending |-> archive_ifilenames[a],
            start |-> mapping]]
    /\ rwlock' = [rwlock EXCEPT !.writer = t]
    /\ UNCHANGED << overwrite, include_arcname, zipfiles, op, loads >>

\* One name of the archive is unwound in thread t.
UnloadStep(t) ==
    /\ threads[t].pc = "unload"
    /\ threads[t].pending # <<>>
    /\ Commit(UnloadName(SelfNow, Head(threads[t].pending)))
    /\ threads' = [threads EXCEPT ![t].pending = Tail(@)]
    /\ UNCHANGED << overwrite, include_arcname, zipfiles, op, loads, rwlock >>

\* The names are done: _unload_infolist returns and the thread gives the
\* lock back.
EndUnload(t) ==
    /\ threads[t].pc = "unload"
    /\ threads[t].pending = <<>>
    /\ op' = [name |-> "_unload_infolist", archive_path |-> threads[t].archive_path,
              outcome |-> "ok", ret |-> "None",
              removed |-> Removed(threads[t].start, mapping), reload |-> FALSE,
              undone |-> {}]
    /\ rwlock' = [rwlock EXCEPT !.writer = "none"]
    /\ threads' = [threads EXCEPT ![t] = IdleThread]
    /\ UNCHANGED << overwrite, include_arcname, mapping, archives, archive_ifilenames,
                    reverse_mapping, zipfiles, log, made, loads >>

\* Thread t takes the shared lock for a query.
BeginRead(t) ==
    /\ threads[t].pc = "idle"
    /\ CanShare(rwlock)
    /\ rwlock' = [rwlock EXCEPT !.readers = @ \cup {t}]
    /\ threads' = [threads EXCEPT ![t].pc = "read"]
    /\ UNCHANGED << overwrite, include_arcname, mapping, archives, archive_ifilenames,
                    reverse_mapping, zipfiles, log, op, made, loads >>

\* Thread t makes its query on the tree as it is now.
ReadStep(t) ==
    /\ threads[t].pc = "read"
    /\ \E p \in LockedPaths : Traverse(p) \/ Readdir(p) \/ Readfile(p)
    /\ threads' = [threads EXCEPT ![t].pc = "seen"]
    /\ UNCHANGED rwlock

\* Thread t gives the shared lock back.
EndRead(t) ==
    /\ threads[t].pc = "seen"
    /\ rwlock' = [rwlock EXCEPT !.readers = @ \ {t}]
    /\ threads' = [threads EXCEPT ![t] = IdleThread]
    /\ UNCHANGED << overwrite, include_arcname, mapping, archives, archive_ifilenames,
                    reverse_mapping, zipfiles, log, op, made, loads >>

\* The calls of threads that take the exclusive lock around load and unload
\* and the shared lock around the queries.
NextLocked ==
    \/ \E t \in Threads, a \in ArchivePaths : BeginLoad(t, a)
    \/ \E t \in Threads : LoadStep(t)
    \/ \E t \in Threads : EndLoad(t)
    \/ \E t \in Threads, a \in ArchivePaths : BeginUnload(t, a)
    \/ \E t \in Threads : UnloadStep(t)
    \/ \E t \in Threads : EndUnload(t)
    \/ \E t \in Threads : BeginRead(t)
    \/ \E t \in Threads : ReadStep(t)
    \/ \E t \in Threads : EndRead(t)

SpecLocked == Init /\ [][NextLocked]_vars

\* ----------------------------------------------------------------- claims

LoadedOk == op.name = "load_archive" /\ op.ret = "True"

UnloadedOk == op.name = "_unload_infolist" /\ op.ret = "None"

\* The names the entries of a listing of archive_path stand for.
NamesOf(archive_path, infolist) ==
    { EffectiveName(archive_path, infolist[i]) : i \in 1..Len(infolist) }

\* C1: with overwrite off, a file leaf bound to a loaded archive is the same
\* leaf after every call other than the unload of that archive: no later
\* load that lists the same path changes it, and no unload of another
\* archive removes it.
C1_FirstOccupantStays ==
    [][ ~overwrite =>
          \A p \in FilePaths(mapping) :
              LET n == NodeAt(mapping, p)
              IN  ( /\ n.archive \in archives
                    /\ ~(op'.name = "_unload_infolist" /\ op'.archive_path = n.archive) )
                  => NodeAt(mapping', p) = n ]_vars

\* A load has just listed a path that another loaded archive occupies, and
\* the leaf is still the other archive's.
C1_Witness ==
    /\ ~overwrite
    /\ LoadedOk
    /\ \E ifilename \in NamesOf(op.archive_path, zipfiles[op.archive_path]) :
          /\ IsLeafName(ifilename)
          /\ IsFile(NodeAt(mapping, PathOf(ifilename)))
          /\ NodeAt(mapping, PathOf(ifilename)).archive # op.archive_path
          /\ NodeAt(mapping, PathOf(ifilename)).archive \in archives

\* C2: unload(A) removes the leaf of each name A contributed exactly when
\* that leaf is a file bound to A, and leaves the leaf as it is otherwise.
C2_UnloadRemovesExactlyOwnLeaves ==
    [][ (op'.name = "_unload_infolist" /\ op'.ret = "None") =>
          LET A == op'.archive_path
              names == archive_ifilenames[A]
          IN  \A i \in 1..Len(names) :
                  LET p == PathOf(names[i])
                      n == NodeAt(mapping, p)
                  IN  IsLeafName(names[i]) =>
                          /\ (IsFile(n) /\ n.archive = A) => NodeAt(mapping', p) = None
                          /\ (IsFile(n) /\ n.archive # A) => NodeAt(mapping', p) = n
                          /\ n = None => NodeAt(mapping', p) = None
                          /\ IsDict(n) => IsDict(NodeAt(mapping', p)) ]_vars

\* C3: a file leaf that was not in the tree before a call is there after it
\* only when the call is a load that went through: once unload has removed
\* a leaf its path stays empty until a load writes it, whatever the name's
\* list of contributors says.
C3_OnlyLoadInstalls ==
    [][ \A p \in FilePaths(mapping') :
            NodeAt(mapping, p) # NodeAt(mapping', p)
                => (op'.name = "load_archive" /\ op'.ret = "True") ]_vars

\* unload(A) has just removed a leaf of A, and the name's list still has an
\* archive that is loaded.
C3_Witness ==
    /\ UnloadedOk
    /\ \E r \in op.removed :
          /\ r.node.archive = op.archive_path
          /\ NodeAt(mapping, r.path) = None
          /\ \E n \in DOMAIN reverse_mapping :
                /\ IsLeafName(n)
                /\ PathOf(n) = r.path
                /\ \E i \in 1..Len(reverse_mapping[n]) : reverse_mapping[n][i] \in archives

\* C4: _unload_infolist of an archive that is not loaded ends with KeyError
\* and leaves the tree, the registry and the name lists as they were.
C4_UnloadNotLoadedFails ==
    [][ (op'.name = "_unload_infolist" /\ op'.archive_path \notin archives) =>
          /\ op'.ret = "KeyError"
          /\ UNCHANGED << mapping, archives, archive_ifilenames, reverse_mapping >> ]_vars

\* An archive that was loaded and unloaded is unloaded again, while another
\* archive is loaded.
C4_Witness ==
    /\ op.name = "_unload_infolist"
    /\ op.ret = "KeyError"
    /\ op.archive_path \in DOMAIN zipfiles
    /\ archives # {}
    /\ mapping # EmptyDict

\* C5: every file leaf of the tree is bound to an archive that is loaded.
C5_LeavesOfLoadedArchives ==
    \A p \in FilePaths(mapping) : NodeAt(mapping, p).archive \in archives

\* C6: when no archive is loaded the name lists and the registry are empty,
\* and every directory the tree has had is still in it.
C6_AllUnloaded ==
    archives = {} =>
        /\ reverse_mapping = EmptyDict
        /\ archive_ifilenames = EmptyDict
        /\ made \subseteq DirPaths(mapping)

\* A fragment of the path is bound to a file.
BlockedByFile(m, frags) ==
    \E k \in 1..Len(frags) : IsFile(NodeAt(m, SubSeq(frags, 1, k)))

\* The tree after a load in which an entry that is blocked by a file leaves
\* the tree as it is and every other entry is taken up.
RECURSIVE MergeSkipping(_, _, _)
MergeSkipping(m, archive_path, infolist) ==
    IF infolist = <<>> THEN m
    ELSE LET info == Head(infolist)
             frags == pathmaker(EffectiveName(archive_path, info)).frags
             next == IF BlockedByFile(m, frags) THEN m
                     ELSE LoadInfo([Register(Self, archive_path) EXCEPT !.mapping = m],
                                   archive_path, info).mapping
         IN  MergeSkipping(next, archive_path, Tail(infolist))

\* C7: a load returns True whatever its entries run into, and its tree is
\* the one in which each entry that had a file among its directory
\* fragments changed nothing and each other entry was taken up in turn.
C7_BlockedEntryChangesNothing ==
    [][ (op'.name = "load_archive" /\ op'.outcome = "ok") =>
          /\ op'.ret = "True"
          /\ mapping' = MergeSkipping(mapping, op'.archive_path,
                                      zipfiles'[op'.archive_path]) ]_vars

\* The first entry of the load was turned down for a file in its way, and
\* the second one has its leaf in the tree.
C7_Witness ==
    /\ LoadedOk
    /\ LET A == op.archive_path
           E == zipfiles[A]
       IN  /\ Len(E) >= 2
           /\ E[1].filename # E[2].filename
           /\ Len(log) >= 1
           /\ log[1] = LogRecord("warning", "could not be created", E[1].filename)
           /\ IsLeafName(EffectiveName(A, E[2]))
           /\ NodeAt(mapping, PathOf(EffectiveName(A, E[2]))) =
                  FileNode(A, E[2].filename, E[2].file_size)

\* C8: a path that is a directory before a call is a directory after it.
C8_DirectoriesStay ==
    [][ DirPaths(mapping) \subseteq DirPaths(mapping') ]_vars

\* C9: a load whose archive does not open returns False and leaves the
\* tree, the registry and the name lists as they were.
C9_FailedOpenChangesNothing ==
    [][ (op'.name = "load_archive" /\ op'.outcome # "ok") =>
          /\ op'.ret = "False"
          /\ UNCHANGED << mapping, archives, archive_ifilenames, reverse_mapping >> ]_vars

\* An archive failed to open while another archive is loaded.
C9_Witness ==
    /\ op.name = "load_archive"
    /\ op.outcome # "ok"
    /\ op.ret = "False"
    /\ op.archive_path \notin archives
    /\ archives # {}
    /\ mapping # EmptyDict

\* C10: when load(A) comes right after unload(A), every leaf A had before
\* the unload (the ones the unload removed and the ones it left) is in the
\* tree again as the same file of A.
C10_ReloadRestores ==
    [][ (op'.name = "load_archive" /\ op'.reload) =>
          LET A == op'.archive_path
          IN  /\ \A r \in op'.undone :
                     r.node.archive = A => NodeAt(mapping', r.path) = r.node
              /\ \A p \in FilePaths(mapping) :
                     NodeAt(mapping, p).archive = A
                         => NodeAt(mapping', p) = NodeAt(mapping, p) ]_vars

\* A has been loaded again right after its unload had removed one of its
\* leaves, for a name that another loaded archive has contributed too.
C10_Witness ==
    /\ LoadedOk
    /\ op.reload
    /\ \E r \in op.undone :
          /\ r.node.archive = op.archive_path
          /\ NodeAt(mapping, r.path) = r.node
          /\ \E n \in DOMAIN reverse_mapping :
                /\ IsLeafName(n)
                /\ PathOf(n) = r.path
                /\ \E i \in 1..Len(reverse_mapping[n]) :
                      /\ reverse_mapping[n][i] # op.archive_path
                      /\ reverse_mapping[n][i] \in archives

\* The paths of the file leaves the entries of a listing stand for.
LeafPathsOf(archive_path, infolist) ==
    { PathOf(n) : n \in { x \in NamesOf(archive_path, infolist) : IsLeafName(x) } }

\* C11: with overwrite on, after a load of A every path that was a file
\* leaf before the load is a file leaf bound to A when A lists that path,
\* and is the same leaf as before when A does not list it.
C11_LatestLoadOccupies ==
    [][ (overwrite /\ op'.name = "load_archive" /\ op'.ret = "True") =>
          LET A == op'.archive_path
              listed == LeafPathsOf(A, zipfiles'[A])
          IN  \A p \in FilePaths(mapping) :
                  IF p \in listed
                  THEN /\ IsFile(NodeAt(mapping', p))
                       /\ NodeAt(mapping', p).archive = A
                  ELSE NodeAt(mapping', p) = NodeAt(mapping, p) ]_vars

\* C11 for the loads in which no entry names a path that is a directory:
\* the part of the claim that does not run into the replacement of a
\* directory by a file.
C11_ApartFromDirectories ==
    [][ ( /\ overwrite /\ op'.name = "load_archive" /\ op'.ret = "True"
          /\ DirPaths(mapping) \subseteq DirPaths(mapping') ) =>
          LET A == op'.archive_path
              listed == LeafPathsOf(A, zipfiles'[A])
          IN  \A p \in FilePaths(mapping) :
                  IF p \in listed
                  THEN /\ IsFile(NodeAt(mapping', p))
                       /\ NodeAt(mapping', p).archive = A
                  ELSE NodeAt(mapping', p) = NodeAt(mapping, p) ]_vars

\* The node at the path p of dict d, by plain subscripting (p is one of the
\* paths of d).
RECURSIVE Subscript(_, _)
Subscript(d, p) ==
    IF Len(p) = 1 THEN d[p[1]] ELSE Subscript(d[p[1]].entries, Tail(p))

\* C12: traverse('') gives the root of the tree; traverse of any other path
\* gives the node at its '/'-separated fragments when they are a path of
\* the tree, and None (no error) when a fragment is missing or the walk
\* would go through a file.
C12_TraverseResolves ==
    op.name = "traverse" =>
        IF op.path = <<>>
        THEN op.ret = "node" /\ op.value = DirNode(mapping)
        ELSE IF Split(op.path) \in FilePaths(mapping) \cup DirPaths(mapping)
        THEN op.ret = "node" /\ op.value = Subscript(mapping, Split(op.path))
        ELSE op.ret = "None" /\ op.value = None

\* traverse has been asked for a path below a file leaf and has answered
\* None.
C12_Witness ==
    /\ op.name = "traverse"
    /\ op.ret = "None"
    /\ \E k \in 1..(Len(Split(op.path)) - 1) :
          SubSeq(Split(op.path), 1, k) \in FilePaths(mapping)

\* C13: readdir of a path gives exactly the names in the directory the path
\* stands for (the root for ''), and nothing when the path stands for a file
\* or for nothing.
C13_ReaddirLists ==
    op.name = "readdir" =>
        IF op.path = <<>>
        THEN op.value = DOMAIN mapping
        ELSE IF Split(op.path) \in DirPaths(mapping)
        THEN op.value = DOMAIN Subscript(mapping, Split(op.path)).entries
        ELSE op.value = {}

\* readdir has been asked for a file leaf and has answered with nothing.
C13_Witness ==
    /\ op.name = "readdir"
    /\ op.path # <<>>
    /\ Split(op.path) \in FilePaths(mapping)
    /\ op.value = {}

\* C14: readfile calls the zip reader only when the path stands for a file
\* leaf, and then with that leaf's archive and entry name; for any other
\* path it fails without a call to the zip reader.
C14_ReadOpensOnlyFileLeaf ==
    op.name = "readfile" =>
        IF IsFile(op.value)
        THEN /\ Len(op.calls) >= 1
             /\ op.calls[1] = [call |-> "ZipFile", arg |-> op.value.archive]
             /\ Len(op.calls) >= 2 =>
                    op.calls[2] = [call |-> "open", arg |-> op.value.filename]
        ELSE /\ op.calls = <<>>
             /\ op.ret \in { "TypeError", "ValueError" }

\* The names of the entries of a listing, in the order of the listing.
NameSeq(archive_path, infolist) ==
    [i \in 1..Len(infolist) |-> EffectiveName(archive_path, infolist[i])]

\* Number of entries of a listing that have the name n.
Occurrences(archive_path, infolist, n) ==
    Cardinality({ i \in 1..Len(infolist) : EffectiveName(archive_path, infolist[i]) = n })

C16_UnloadedArchiveLeavesLedger ==
    UnloadedOk =>
        /\ op.archive_path \notin archives
        /\ op.archive_path \notin DOMAIN archive_ifilenames
        /\ \A n \in DOMAIN reverse_mapping :
               /\ reverse_mapping[n] # <<>>
               /\ \A i \in 1..Len(reverse_mapping[n]) :
                      reverse_mapping[n][i] # op.archive_path

\* C17: with overwrite off, unload(A) leaves the file leaf of each name whose
\* list does not begin with A as it is, also when the leaf is bound to A;
\* and a leaf goes only in the unload of the archive its name's list begins
\* with.
C17_LeafGoesWithOldestContributor ==
    [][ (~overwrite /\ op'.name = "_unload_infolist" /\ op'.ret = "None") =>
          LET A == op'.archive_path
              names == archive_ifilenames[A]
          IN  /\ \A i \in 1..Len(names) :
                     LET p == PathOf(names[i])
                         n == NodeAt(mapping, p)
                     IN  ( /\ IsLeafName(names[i])
                           /\ IsFile(n)
                           /\ reverse_mapping[names[i]][1] # A )
                         => NodeAt(mapping', p) = n
              /\ \A r \in op'.removed :
                     \E n \in DOMAIN reverse_mapping :
                         /\ IsLeafName(n)
                         /\ PathOf(n) = r.path
                         /\ reverse_mapping[n][1] = A ]_vars

\* A has been unloaded while an older contributor of a name is loaded, and
\* the leaf of that name, bound to A, is still in the tree.
C17_Witness ==
    /\ ~overwrite
    /\ UnloadedOk
    /\ \E n \in DOMAIN reverse_mapping :
          /\ IsLeafName(n)
          /\ IsFile(NodeAt(mapping, PathOf(n)))
          /\ NodeAt(mapping, PathOf(n)).archive = op.archive_path
          /\ reverse_mapping[n][1] # op.archive_path
          /\ reverse_mapping[n][1] \in archives

\* C18 as stated: the entry name a file leaf records is the effective name,
\* the string its path was made from.
C18_LeafRecordsEffectiveName ==
    \A p \in FilePaths(mapping) : Split(NodeAt(mapping, p).filename) = p

\* C18, amended: a file leaf records the name the entry has inside its
\* archive, as the archive lists it, and stands at the path made from the
\* effective name, which is that name after the archive's base name and '/'
\* when include_arcname is set and that name itself otherwise.
C18_LeafRecordsInternalName ==
    \A p \in FilePaths(mapping) :
        LET node == NodeAt(mapping, p)
            E    == zipfiles[node.archive]
        IN  /\ \E i \in 1..Len(E) :
                   /\ E[i].filename = node.filename
                   /\ E[i].file_size = node.file_size
            /\ p = IF include_arcname
                   THEN Split(basename(node.archive) \o <<"/">> \o node.filename)
                   ELSE Split(node.filename)

\* With include_arcname set, a load has written a leaf below the directory
\* named after its archive.
C18_Witness ==
    /\ include_arcname
    /\ LoadedOk
    /\ \E p \in FilePaths(mapping) :
          /\ NodeAt(mapping, p).archive = op.archive_path
          /\ p[1] = basename(op.archive_path)
          /\ Split(NodeAt(mapping, p).filename) # p

\* The names of a listing that end with '/', and the others.
MarkersOf(archive_path, infolist) ==
    { n \in NamesOf(archive_path, infolist) : n # <<>> /\ n[Len(n)] = "/" }

\* Some fragment of the path p is a file in m.
ThroughFile(m, p) ==
    \E k \in 1..Len(p) : IsFile(NodeAt(m, SubSeq(p, 1, k)))

\* C19: in a load, file leaves are written only at the paths of entries
\* that do not end with '/', the last segment being the leaf; every entry
\* that ends with '/' has all its segments as directories afterwards, and
\* every other entry has its leading segments as directories and its leaf
\* in place, unless a file stands in the way.
C19_DirectoryEntriesMakeDirectories ==
    [][ (op'.name = "load_archive" /\ op'.ret = "True") =>
          LET A == op'.archive_path
              E == zipfiles'[A]
              markers == MarkersOf(A, E)
              others  == NamesOf(A, E) \ markers
          IN  /\ \A p \in FilePaths(mapping') :
                     NodeAt(mapping', p) # NodeAt(mapping, p)
                         => \E n \in others : Split(n) = p
              /\ \A n \in markers :
                     LET segs == SubSeq(Split(n), 1, Len(Split(n)) - 1)
                     IN  \/ ThroughFile(mapping', segs)
                         \/ \A k \in 1..Len(segs) :
                                IsDict(NodeAt(mapping', SubSeq(segs, 1, k)))
              /\ \A n \in others :
                     LET segs == Split(n)
                     IN  \/ ThroughFile(mapping', SubSeq(segs, 1, Len(segs) - 1))
                         \/ /\ \A k \in 1..(Len(segs) - 1) :
                                   IsDict(NodeAt(mapping', SubSeq(segs, 1, k)))
                            /\ NodeAt(mapping', segs) # None ]_vars

\* A load has listed a directory entry and a file entry: the directory that
\* was not there before is there now with no file written for it, and the
\* file is a leaf of the archive.
C19_Witness ==
    /\ LoadedOk
    /\ loads = 1
    /\ LET A == op.archive_path
           E == zipfiles[A]
       IN  /\ \E n \in MarkersOf(A, E) :
                  NodeAt(mapping, SubSeq(Split(n), 1, Len(Split(n)) - 1)) = DirNode(EmptyDict)
           /\ \E n \in NamesOf(A, E) \ MarkersOf(A, E) :
                  /\ IsFile(NodeAt(mapping, Split(n)))
                  /\ NodeAt(mapping, Split(n)).archive = A

\* The list s without the occurrences of archive_path.
Without(s, archive_path) == SelectSeq(s, LAMBDA x : x # archive_path)

\* The list of name n in ledger, empty when the name has none.
LedgerOf(ledger, n) == IF n \in DOMAIN ledger THEN ledger[n] ELSE <<>>

\* C20: a load of A leaves every name's list as it was and puts A at its
\* end, once per entry of that name; an unload of A takes the occurrences
\* of A, and nothing else, out of every list, the others staying in their
\* order.
C20_LedgerKeepsLoadOrder ==
    [][ /\ (op'.name = "load_archive" /\ op'.ret = "True") =>
              \A n \in DOMAIN reverse_mapping \cup DOMAIN reverse_mapping' :
                  /\ Len(LedgerOf(reverse_mapping', n)) >= Len(LedgerOf(reverse_mapping, n))
                  /\ \A i \in 1..Len(LedgerOf(reverse_mapping', n)) :
                         LedgerOf(reverse_mapping', n)[i] =
                             IF i <= Len(LedgerOf(reverse_mapping, n))
                             THEN reverse_mapping[n][i] ELSE op'.archive_path
        /\ (op'.name = "_unload_infolist" /\ op'.ret = "None") =>
              \A n \in DOMAIN reverse_mapping \cup DOMAIN reverse_mapping' :
                  LedgerOf(reverse_mapping', n) =
                      Without(LedgerOf(reverse_mapping, n), op'.archive_path) ]_vars

\* The names in the list s.
Range(s) == { s[i] : i \in 1..Len(s) }

QueryNames == { "traverse", "readdir", "readfile" }

\* C22: a call of traverse, readdir or readfile leaves the tree, the
\* registry and the lists of names as they were, whatever the path and
\* however the call ends.
C22_QueriesChangeNothing ==
    [][ (op'.name \in QueryNames) =>
          UNCHANGED << mapping, archives, archive_ifilenames, reverse_mapping >> ]_vars

\* readfile has failed on a path that is not in a tree that has leaves,
\* while an archive is loaded.
C22_Witness ==
    /\ op.name = "readfile"
    /\ op.ret = "TypeError"
    /\ op.value = None
    /\ FilePaths(mapping) # {}
    /\ archives # {}

\* The threads that are inside a load or an unload, and the threads that
\* are inside a query.
Mutating == { t \in Threads : threads[t].pc \in { "load", "unload" } }

Reading == { t \in Threads : threads[t].pc \in { "read", "seen" } }

CountIn(s, x) == Cardinality({ i \in 1..Len(s) : s[i] = x })

\* C24: between calls, every archive is in the list of every name as many
\* times as the name is in the archive's list of names when the archive is
\* loaded, and not at all when it is not loaded.
C24_LedgerMatchesRegistry ==
    \A A \in ArchivePaths :
        \A n \in DOMAIN reverse_mapping
                  \cup UNION { Range(archive_ifilenames[B]) : B \in DOMAIN archive_ifilenames } :
            CountIn(LedgerOf(reverse_mapping, n), A) =
                IF A \in archives THEN CountIn(archive_ifilenames[A], n) ELSE 0

====
